---- MODULE Spec2Model ----
(***************************************************************************)
(* Churn-insight backend: the training-job coordinator                     *)
(* (api/routes/train.py, app/models.py), the evaluator's best-model        *)
(* selection (src/model_evaluator.py), the artifact files written by       *)
(* src/model_trainer.py, the Predictor (src/predictor.py), the            *)
(* DataProcessor (src/data_processor.py), the serving endpoints and        *)
(* load_models (api/routes/predict.py), and the Explainer's                *)
(* recommendations (src/explainer.py).                                     *)
(*                                                                         *)
(* Conventions.  A Float progress p is held as the integer 10*p (tenths).  *)
(* A probability is held in hundredths.  A column that is None holds the   *)
(* string NULL; a timestamp that is set holds UtcNow (the value of         *)
(* datetime.utcnow() is not modelled).  The JSON column `results` is the   *)
(* empty set when None and a singleton set holding the summary otherwise.  *)
(***************************************************************************)
EXTENDS Integers, Sequences, FiniteSets, TLC

(* ------------------------------ bounds -------------------------------- *)

\* Number of training jobs submitted in one run of the model.
MaxJobs == 2

\* ROC-AUC scores an evaluation can yield are drawn from 1..AucLevels.
AucLevels == 2

\* Longest feature matrix handed to the Predictor.
MaxRows == 3

\* Probabilities are the hundredths 0..ProbMax.
ProbMax == 100

\* The categories a multi-class column can hold are 1..MaxCategory.
MaxCategory == 3

\* Most rows of a CSV uploaded to POST /bulk_predict.
MaxBulkRows == 2

\* Longest feature_impacts list handed to generate_recommendations.
MaxImpacts == 4

\* Bound on the records of a frame read from a CSV file.
MaxRecords == 2

(* ------------------------ program constants --------------------------- *)

NULL == "NULL"
UtcNow == "utcnow"

\* train.py:206 and model_trainer.py:257-261 (dict insertion order).
Variants == << "Logistic Regression", "Random Forest", "XGBoost" >>

\* The stage labels written to current_model, in the order of the code.
Stages ==
  << "Loading data", "Engineering features", "Processing data",
     "Splitting data", "Training models", "Evaluating models",
     "Saving models", "Saving metrics" >>

\* The progress (tenths) persisted together with each stage label.
StageProgress == << 1, 2, 3, 4, 5, 7, 8, 9 >>

\* Index of the stage whose call writes the artifact files.
SaveModelsStage == 7

\* Index of the stage that adds and commits the ModelMetric rows.
SaveMetricsStage == 8

\* Index of the stage that evaluates the trained models.
EvaluateStage == 6

\* Progress of a completed job (1.0), in tenths.
FullProgress == 10

\* Default of the `limit` query parameter of GET /train/jobs.
DefaultLimit == 10

\* What a job writes, in the order it writes it: the model files of the
\* saved_models directory (the dump loop of ModelTrainer.save_models, taken
\* as one write), the scaler file, then the metadata file.
ArtifactFiles == << "saved_models", "scaler.pkl", "model_metadata.json" >>

\* The ordered feature-name list process_pipeline returns for the corpus.
FeatureNames == << "tenure", "MonthlyCharges", "TotalCharges" >>

\* What the raw-data file can be when a job loads it.
CorpusStates == { "ok", "missing", "unreadable" }

\* Risk breakpoints of Predictor._get_risk_level, in hundredths.
HighRisk == 70
MediumRisk == 40

VARIABLES
  db,          \* training_jobs table: job id -> committed row
  mem,         \* job id -> the TrainingJob object of the session working on it
  task,        \* job id -> locals of train_models_task(job id)
  files,       \* artifact file -> id of the job that wrote it last (0: none)
  metricRows,  \* committed ModelMetric rows
  corpus,      \* state of data/raw/telco_churn.csv
  scores,      \* ROC-AUC each variant trained on the corpus gets: index -> score
  response,    \* what the operation of the last step returned to its caller
  model,       \* Predictor.model: NULL or the name of the attached model
  serving,     \* the module globals of api/routes/predict.py
  loader,      \* the call of load_models in progress and the request it serves
  proc,        \* a DataProcessor: its scaler and its feature_names
  fitNames,    \* the feature names a fit returned (written to the metadata)
  fitFrame     \* the frame that fit was given

vars ==
  << db, mem, task, files, metricRows, corpus, scores, response, model,
     serving, loader, proc, fitNames, fitFrame >>

serveVars == << serving, loader, proc, fitNames, fitFrame >>

jobVars == << db, mem, task, files, metricRows, corpus, scores >>

NoResponse == [kind |-> "none"]

Jobs == DOMAIN db

(* ----------------------------- TrainingJob ---------------------------- *)

\* Row created by POST /train: explicit status, column defaults elsewhere.
NewJob(j) ==
  [ job_id        |-> j,
    status        |-> "pending",
    progress      |-> 0,
    current_model |-> NULL,
    results       |-> {},
    error_message |-> NULL,
    created_at    |-> j,
    started_at    |-> NULL,
    completed_at  |-> NULL ]

\* TrainingJob.to_dict
ToDict(row) ==
  [ job_id        |-> row.job_id,
    status        |-> row.status,
    progress      |-> row.progress,
    current_model |-> row.current_model,
    results       |-> row.results,
    error_message |-> row.error_message,
    created_at    |-> row.created_at,
    started_at    |-> row.started_at,
    completed_at  |-> row.completed_at ]

\* Variant: one session shared by every task, so that a commit flushes the
\* objects of all of them.
CommitShared(table, j, obj) ==
  [k \in DOMAIN table |-> IF k = j THEN obj ELSE mem[k]]

\* db.commit() of the session holding job j: its object becomes the row.
Commit(table, j, obj) == [table EXCEPT ![j] = obj]

(* ----------------------------- evaluator ------------------------------ *)

\* evaluate_all_models: one metrics entry per trained model, in dict order.
EvaluateAll(auc) ==
  [i \in 1..Len(Variants) |-> [model_name |-> Variants[i], roc_auc |-> auc[i]]]

\* ModelEvaluator.get_best_model: max() keeps the first maximal entry.
GetBestModel(metrics) ==
  LET best[i \in 1..Len(metrics)] ==
        IF i = 1 THEN metrics[1]
        ELSE IF metrics[i].roc_auc > best[i - 1].roc_auc
             THEN metrics[i] ELSE best[i - 1]
  IN  best[Len(metrics)].model_name

(* ------------------------- train_models_task -------------------------- *)

\* Locals of a queued task: pc is the position in train_models_task, k the
\* index of the current stage, written the number of artifact files the
\* save stage has written, e the caught exception, metrics the evaluator's
\* metrics dict, calls the stage calls made so far in order.
NoTask ==
  [ pc |-> "queued", k |-> 0, written |-> 0, e |-> NULL,
    metrics |-> << >>, calls |-> << >> ]

\* train.py:55
AssignRunning(obj) == [obj EXCEPT !.status = "running"]

\* Variant: the start timestamp is not set.
AssignStartedNoTimestamp(obj) ==
  [obj EXCEPT !.current_model = Stages[1],
              !.progress = StageProgress[1]]

\* train.py:56-58
AssignStarted(obj) ==
  [obj EXCEPT !.started_at = UtcNow,
              !.current_model = Stages[1],
              !.progress = StageProgress[1]]

\* job.progress = ... after the call of stage k returned
AssignProgress(obj, k) == [obj EXCEPT !.progress = StageProgress[k + 1]]

\* Variant: the label of the stage after the next one.
AssignLabelSkip(obj, k) ==
  [obj EXCEPT !.current_model = Stages[IF k + 2 <= Len(Stages) THEN k + 2 ELSE k + 1]]

\* job.current_model = ... before the commit that opens stage k + 1
AssignLabel(obj, k) == [obj EXCEPT !.current_model = Stages[k + 1]]

\* Variant: the progress is left as the last stage set it.
AssignCompletedNoProgress(obj) ==
  [obj EXCEPT !.status = "completed", !.completed_at = UtcNow]

\* train.py:163-165
AssignCompleted(obj) ==
  [obj EXCEPT !.status = "completed",
              !.progress = FullProgress,
              !.completed_at = UtcNow]

\* train.py:166-171
AssignResults(obj, metrics) ==
  [obj EXCEPT !.results =
     { [ metrics       |-> metrics,
         best_model    |-> GetBestModel(metrics),
         feature_count |-> Len(FeatureNames) ] }]

\* Variant: the handler records the error but leaves the status.
AssignFailedKeepsStatus(obj, e) ==
  [obj EXCEPT !.error_message = e,
              !.completed_at = UtcNow]

\* Variant: the handler also resets the progress.
AssignFailedReset(obj, e) ==
  [obj EXCEPT !.status = "failed",
              !.progress = 0,
              !.error_message = e,
              !.completed_at = UtcNow]

\* train.py:181-183
AssignFailed(obj, e) ==
  [obj EXCEPT !.status = "failed",
              !.error_message = e,
              !.completed_at = UtcNow]

\* Variant: the handler's query without its filter, .first() of the table.
HandlerJobUnfiltered(j) == 1

\* The job the except handler re-queries: filter(job_id == job_id).first()
HandlerJob(j) == j

\* Variant: the loader falls back to generated sample data.
LoadFallsBack == TRUE

\* DataLoader.load_telco_churn returns the frame only when the file exists
\* and pandas can read it.
LoadSucceeds == corpus = "ok"

\* str(e) of the exception stage k raises.  The load stage raises
\* FileNotFoundError when the file is missing and pandas' error otherwise.
StageError(k) ==
  IF k = 1
  THEN IF corpus = "missing" THEN "Dataset not found" ELSE "Error loading dataset"
  ELSE Stages[k]

\* train_models, POST /train: the row is committed, the task is queued and
\* the caller gets the pending job back.
Submit ==
  /\ Cardinality(Jobs) < MaxJobs
  /\ LET j == Cardinality(Jobs) + 1 IN
       /\ db' = db @@ (j :> NewJob(j))
       /\ mem' = mem @@ (j :> NewJob(j))
       /\ task' = task @@ (j :> NoTask)
       /\ response' = [kind |-> "train", job_id |-> j, status |-> "pending"]
  /\ UNCHANGED << files, metricRows, corpus, scores, model, serveVars >>

\* train.py:46-55: the worker picks the job up, loads it into its own
\* session and sets status on the object.
TaskStart(j) ==
  /\ task[j].pc = "queued"
  /\ mem' = [mem EXCEPT ![j] = AssignRunning(db[j])]
  /\ task' = [task EXCEPT ![j].pc = "starting"]
  /\ response' = NoResponse
  /\ UNCHANGED << db, files, metricRows, corpus, scores, model, serveVars >>

\* train.py:56-59: the remaining fields, then the first commit.
TaskBegin(j) ==
  /\ task[j].pc = "starting"
  /\ LET obj == AssignStarted(mem[j]) IN
       /\ mem' = [mem EXCEPT ![j] = obj]
       /\ db' = Commit(db, j, obj)
  /\ task' = [task EXCEPT ![j].pc = "ready", ![j].k = 1]
  /\ response' = NoResponse
  /\ UNCHANGED << files, metricRows, corpus, scores, model, serveVars >>

\* A stage call that touches only the worker's own objects (load, engineer,
\* process, split, train, evaluate) returns, and the progress of the next
\* stage is set on the object.  The evaluate stage yields the metrics.
StageReturn(j) ==
  /\ task[j].pc = "ready"
  /\ task[j].k < SaveModelsStage
  /\ task[j].k = 1 => LoadSucceeds
  /\ task' = [task EXCEPT
                ![j].pc = "called",
                ![j].calls = Append(@, task[j].k),
                ![j].metrics = IF task[j].k = EvaluateStage
                               THEN EvaluateAll(scores) ELSE @]
  /\ mem' = [mem EXCEPT ![j] = AssignProgress(@, task[j].k)]
  /\ response' = NoResponse
  /\ UNCHANGED << db, files, metricRows, corpus, scores, model, serveVars >>

\* The label of the next stage is set and both fields are committed.
StageCommit(j) ==
  /\ task[j].pc = "called"
  /\ LET obj == AssignLabel(mem[j], task[j].k) IN
       /\ mem' = [mem EXCEPT ![j] = obj]
       /\ db' = Commit(db, j, obj)
  /\ task' = [task EXCEPT ![j].pc = "ready", ![j].k = @ + 1]
  /\ response' = NoResponse
  /\ UNCHANGED << files, metricRows, corpus, scores, model, serveVars >>

\* train.py:116-131: save_models dumps the models and the scaler, then the
\* task writes the metadata file; one write per step.  After the last one
\* the progress of the next stage is set on the object.
SaveFile(j) ==
  /\ task[j].pc = "ready"
  /\ task[j].k = SaveModelsStage
  /\ LET n == task[j].written + 1
         last == n = Len(ArtifactFiles) IN
       /\ files' = [files EXCEPT ![ArtifactFiles[n]] = j]
       /\ task' = [task EXCEPT
                     ![j].written = n,
                     ![j].calls = IF n = 1 THEN Append(@, task[j].k) ELSE @,
                     ![j].pc = IF last THEN "called" ELSE @]
       /\ mem' = [mem EXCEPT ![j] = IF last THEN AssignProgress(@, task[j].k) ELSE @]
  /\ response' = NoResponse
  /\ UNCHANGED << db, metricRows, corpus, scores, model, serveVars >>

\* The ModelMetric row train.py:139-157 builds for one metrics entry.
MetricRow(j, m) == [job |-> j, model_name |-> m.model_name, roc_auc |-> m.roc_auc]

\* train.py:138-165: the rows are added and committed, then the completed
\* status, progress and timestamp are set on the object.
SaveMetrics(j) ==
  /\ task[j].pc = "ready"
  /\ task[j].k = SaveMetricsStage
  /\ metricRows' = metricRows \cup
       { MetricRow(j, task[j].metrics[i]) : i \in 1..Len(task[j].metrics) }
  /\ mem' = [mem EXCEPT ![j] = AssignCompleted(@)]
  /\ task' = [task EXCEPT ![j].pc = "finishing", ![j].calls = Append(@, task[j].k)]
  /\ response' = NoResponse
  /\ UNCHANGED << db, files, corpus, scores, model, serveVars >>

\* train.py:166-174: the result summary is set and the job is committed.
Finish(j) ==
  /\ task[j].pc = "finishing"
  /\ LET obj == AssignResults(mem[j], task[j].metrics) IN
       /\ mem' = [mem EXCEPT ![j] = obj]
       /\ db' = Commit(db, j, obj)
  /\ task' = [task EXCEPT ![j].pc = "done", ![j].metrics = << >>, ![j].written = 0]
  /\ response' = NoResponse
  /\ UNCHANGED << files, metricRows, corpus, scores, model, serveVars >>

\* Variant: the except clause ends with a bare raise.
HandlerReraises == "escaped"

\* Where the task is once the except clause has run: the clause does not
\* re-raise, so the task returns normally ("escaped": the exception leaves
\* train_models_task).
HandlerExit == "done"

\* train.py:176-187: the call of the current stage raises.  The handler
\* re-queries the job in the task's session, marks it failed and commits;
\* that commit also flushes the first `added` ModelMetric objects the
\* save-metrics loop had added to the session before it raised.
StageRaise(j) ==
  /\ task[j].pc = "ready"
  /\ task[j].k = 1 => ~LoadSucceeds
  /\ LET k == task[j].k
         e == StageError(k)
         t == HandlerJob(j)
         obj == AssignFailed(IF t = j THEN mem[j] ELSE db[t], e) IN
       /\ \E added \in 0..(Len(Variants) - 1) :
            /\ (k # SaveMetricsStage) => added = 0
            /\ metricRows' = metricRows \cup
                 { MetricRow(j, task[j].metrics[i]) : i \in 1..added }
       /\ db' = Commit(db, t, obj)
       /\ mem' = [mem EXCEPT ![j] = IF t = j THEN obj ELSE @]
       /\ task' = [task EXCEPT
                     ![j].pc = HandlerExit,
                     ![j].e = e,
                     ![j].calls = IF Len(@) < k THEN Append(@, k) ELSE @,
                     ![j].metrics = << >>,
                     ![j].written = 0]
  /\ response' = NoResponse
  /\ UNCHANGED << files, corpus, scores, model, serveVars >>

(* --------------------------- status queries --------------------------- *)

\* Variant: the request is served from the object the task is working on.
QueryJobShared(j) == mem[j]

\* train.py:243: the row the request's own session reads.
QueryJob(j) == db[j]

\* GET /train/status/{job_id}
GetTrainingStatus(j) ==
  /\ response' =
       IF j \in Jobs
       THEN [kind |-> "status", code |-> 200, job_id |-> j, body |-> ToDict(QueryJob(j))]
       ELSE [kind |-> "status", code |-> 404, job_id |-> j, body |-> ToDict(NewJob(0))]
  /\ UNCHANGED << jobVars, model, serveVars >>

\* order_by(created_at.desc()) of the job ids in S
RECURSIVE OrderByCreatedDesc(_)
OrderByCreatedDesc(S) ==
  IF S = {} THEN << >>
  ELSE LET m == CHOOSE x \in S : \A y \in S : db[y].created_at <= db[x].created_at
       IN  << m >> \o OrderByCreatedDesc(S \ {m})

\* .limit(limit)
Limit(seq, limit) == SubSeq(seq, 1, IF limit < Len(seq) THEN limit ELSE Len(seq))

\* GET /train/jobs
GetTrainingJobs(limit) ==
  /\ LET ids == Limit(OrderByCreatedDesc(Jobs), limit)
         jobs == [i \in 1..Len(ids) |-> ToDict(QueryJob(ids[i]))] IN
       response' = [kind |-> "jobs", jobs |-> jobs, count |-> Len(jobs)]
  /\ UNCHANGED << jobVars, model, serveVars >>

(* ------------------------------ Predictor ----------------------------- *)

\* A row of a feature matrix is held as what the attached classifier yields
\* for it: pred is model.predict's label, proba model.predict_proba's
\* probability of class 1 (hundredths); class 0 gets the complement.
Rows == [pred : {0, 1}, proba : 0..ProbMax]

\* The rows batches are built from: one on each side of both breakpoints.
BatchRows ==
  { [pred |-> 0, proba |-> MediumRisk - 1], [pred |-> 0, proba |-> MediumRisk],
    [pred |-> 1, proba |-> HighRisk - 1],   [pred |-> 1, proba |-> HighRisk] }

RECURSIVE SeqsUpTo(_, _)
SeqsUpTo(S, n) ==
  IF n = 0 THEN { << >> }
  ELSE LET shorter == SeqsUpTo(S, n - 1)
       IN  shorter \cup { Append(q, x) : q \in shorter, x \in S }

\* self.model.predict(X)
ModelPredict(X) == [i \in 1..Len(X) |-> X[i].pred]

\* self.model.predict_proba(X): rows of [P(class 0), P(class 1)]
ModelPredictProba(X) == [i \in 1..Len(X) |-> << ProbMax - X[i].proba, X[i].proba >>]

\* Variant: strict comparisons, the breakpoints fall to the lower tier.
GetRiskLevelStrict(probability) ==
  IF probability > HighRisk THEN "HIGH"
  ELSE IF probability > MediumRisk THEN "MEDIUM"
  ELSE "LOW"

\* Predictor._get_risk_level
GetRiskLevel(probability) ==
  IF probability >= HighRisk THEN "HIGH"
  ELSE IF probability >= MediumRisk THEN "MEDIUM"
  ELSE "LOW"

\* The dictionary predict_single and predict_batch build for one row.
\* prob is indexed from 1: prob[2] is Python's prob[1].
ResultDict(pred, prob) ==
  [ churn_prediction     |-> pred # 0,
    churn_probability    |-> prob[2],
    no_churn_probability |-> prob[1],
    risk_level           |-> GetRiskLevel(prob[2]),
    model_name           |-> model ]

\* Variant: the loop pairs every prediction with the first row's
\* probabilities.
RECURSIVE BatchLoopFirstProb(_, _, _, _)
BatchLoopFirstProb(predictions, probabilities, i, results) ==
  IF i > Len(predictions) \/ i > Len(probabilities) THEN results
  ELSE BatchLoopFirstProb(predictions, probabilities, i + 1,
                 Append(results, ResultDict(predictions[i], probabilities[1])))

\* The loop of predict_batch over zip(predictions, probabilities), from
\* position i on, appending to results.
RECURSIVE BatchLoop(_, _, _, _)
BatchLoop(predictions, probabilities, i, results) ==
  IF i > Len(predictions) \/ i > Len(probabilities) THEN results
  ELSE BatchLoop(predictions, probabilities, i + 1,
                 Append(results, ResultDict(predictions[i], probabilities[i])))

Raised(e) == [kind |-> "raised", error |-> e]

\* Predictor.load_model, or the attribute set directly as the tests do.
LoadModel ==
  /\ model = NULL
  /\ model' = "XGBoost"
  /\ response' = NoResponse
  /\ UNCHANGED << jobVars, serveVars >>

\* Variant: predict_single without the check of self.model.
PredictSingleUnguarded(X) ==
  /\ response' =
       IF Len(X) = 0 THEN Raised("IndexError")
       ELSE [ kind |-> "predict_single", X |-> X,
              result |-> ResultDict(ModelPredict(X)[1], ModelPredictProba(X)[1]) ]
  /\ UNCHANGED << jobVars, model, serveVars >>

\* Predictor.predict_single
PredictSingle(X) ==
  /\ response' =
       IF model = NULL THEN Raised("ValueError: Model not loaded")
       ELSE IF Len(X) = 0 THEN Raised("IndexError")
       ELSE [ kind |-> "predict_single", X |-> X,
              result |-> ResultDict(ModelPredict(X)[1], ModelPredictProba(X)[1]) ]
  /\ UNCHANGED << jobVars, model, serveVars >>

\* Predictor.predict_batch
PredictBatch(X) ==
  /\ response' =
       IF model = NULL THEN Raised("ValueError: Model not loaded")
       ELSE [ kind |-> "predict_batch", X |-> X,
              results |-> BatchLoop(ModelPredict(X), ModelPredictProba(X), 1, << >>) ]
  /\ UNCHANGED << jobVars, model, serveVars >>

(* ---------------------------- DataProcessor --------------------------- *)

\* A DataFrame is held as the sequence of its rows, and a row as the
\* category it has in the one multi-class column that is modelled
\* (Contract); categories are numbered in their sort order, which is the
\* order pandas.get_dummies emits their columns in.  A column name is
\* [col, cat]: cat is 0 for a numeric column.
Categories == 1..MaxCategory

Frames == SeqsUpTo(Categories, MaxRows)

NumericColumns == [i \in 1..Len(FeatureNames) |-> [col |-> FeatureNames[i], cat |-> 0]]

RECURSIVE SortedSeq(_)
SortedSeq(S) ==
  IF S = {} THEN << >>
  ELSE LET m == CHOOSE x \in S : \A y \in S : x <= y
       IN  << m >> \o SortedSeq(S \ {m})

\* data_processor.py:94, pd.get_dummies(df, columns=..., drop_first=True):
\* one column per category present in df, in sort order, the first dropped.
GetDummies(df) ==
  LET cats == SortedSeq({ df[i] : i \in 1..Len(df) })
  IN  [i \in 1..(Len(cats) - 1) |-> [col |-> "Contract", cat |-> cats[i + 1]]]

\* DataProcessor.encode_categorical followed by the column selection of
\* prepare_features: the columns of X.
EncodeCategorical(df) == NumericColumns \o GetDummies(df)

\* DataProcessor.__init__
NewProcessor ==
  [ label_encoders |-> << >>, fitted |-> FALSE, scaler |-> << >>, feature_names |-> << >> ]

\* data_processor.py:125: self.feature_names = X.columns.tolist()
StoreFeatureNames(p, columns) == [p EXCEPT !.feature_names = columns]

\* StandardScaler.transform(X) of a scaler fitted on the columns p.scaler:
\* the number of features is checked by every scikit-learn, the names only
\* by the recent ones (strict).
ScalerTransform(p, columns, strict) ==
  IF ~p.fitted THEN Raised("NotFittedError")
  ELSE IF Len(columns) # Len(p.scaler) THEN Raised("ValueError: n_features")
  ELSE IF strict /\ columns # p.scaler THEN Raised("ValueError: feature names")
  ELSE [kind |-> "transform", feature_names |-> columns]

\* process_pipeline(df, fit=True), as train.py:82 and the tests call it;
\* its third result is what train.py:121 writes to the metadata.
Fit(df) ==
  /\ ~proc.fitted
  /\ Len(df) > 0
  /\ LET columns == EncodeCategorical(df) IN
       /\ proc' = [StoreFeatureNames(proc, columns) EXCEPT !.fitted = TRUE, !.scaler = columns]
       /\ fitNames' = columns
       /\ fitFrame' = df
       /\ response' = [ kind |-> "process_pipeline", fit |-> TRUE, df |-> df,
                        out |-> [kind |-> "transform", feature_names |-> columns] ]
  /\ UNCHANGED << jobVars, model, serving, loader >>

\* process_pipeline(df, fit=False, target_col='Churn'), as explain.py:125,
\* predict.py:319 and process_single_input call it.
Transform(df, strict) ==
  /\ proc.fitted
  /\ Len(df) > 0
  /\ LET columns == EncodeCategorical(df) IN
       /\ proc' = StoreFeatureNames(proc, columns)
       /\ response' = [ kind |-> "process_pipeline", fit |-> FALSE, df |-> df,
                        out |-> ScalerTransform(proc, columns, strict) ]
  /\ UNCHANGED << jobVars, model, serving, loader, fitNames, fitFrame >>

(* ------------------------------ Explainer ----------------------------- *)

\* A feature is held with the keywords of generate_recommendations that
\* its lower-cased name contains.
ExplainFeatures ==
  { [name |-> "has_long_contract",          keys |-> { "contract" }],
    [name |-> "tenure_charges_interaction", keys |-> { "tenure", "charges" }],
    [name |-> "MonthlyCharges",             keys |-> { "charges" }],
    [name |-> "gender",                     keys |-> { } ] }

\* An entry of feature_impacts; of the SHAP value only the sign is kept.
Impacts == [feature : ExplainFeatures, shap_value : { -1, 1 }]

\* Churn probabilities (hundredths) on both sides of 0.6, 0.7 and 0.8.
ExplainProbabilities == { 60, 61, 70, 71, 80, 81 }

\* 'keyword' in feature.lower()
Contains(feature, keyword) == keyword \in feature.keys

RecContract == "Offer a contract upgrade incentive (annual or 2-year plan)"
RecPayment  == "Promote automatic payment methods with discount"
RecSupport  == "Offer complimentary tech support trial"
RecSecurity == "Provide security service package promotion"
RecTenure   == "Implement loyalty rewards program for long-term customers"
RecDiscount == "Consider offering a personalized discount or price adjustment"
RecValue    == "Highlight value-added services to justify pricing"
\* The source puts a warning sign in front of this text.
RecPriority == "HIGH PRIORITY: Immediate customer retention outreach required"
RecCall     == "Schedule proactive customer satisfaction call"
RecMonitor  == "Monitor customer engagement and satisfaction metrics"
RecSurvey   == "Conduct customer feedback survey"

\* explainer.py:163-188: what one risk factor appends.
FactorRecommendation(feature, churn_probability) ==
  IF Contains(feature, "month_to_month") \/ Contains(feature, "contract")
  THEN << RecContract >>
  ELSE IF Contains(feature, "electronic_check") \/ Contains(feature, "payment")
  THEN << RecPayment >>
  ELSE IF Contains(feature, "tech_support") THEN << RecSupport >>
  ELSE IF Contains(feature, "online_security") \/ Contains(feature, "security")
  THEN << RecSecurity >>
  ELSE IF Contains(feature, "tenure") THEN << RecTenure >>
  ELSE IF Contains(feature, "charges")
  THEN IF churn_probability > HighRisk THEN << RecDiscount >> ELSE << RecValue >>
  ELSE << >>

\* Variant: the first five entries with a positive SHAP value.
TopRiskFactorsFive(feature_impacts) ==
  LET positive == SelectSeq(feature_impacts, LAMBDA f : f.shap_value > 0)
  IN  SubSeq(positive, 1, IF Len(positive) < 5 THEN Len(positive) ELSE 5)

\* explainer.py:160: the first three entries with a positive SHAP value.
TopRiskFactors(feature_impacts) ==
  LET positive == SelectSeq(feature_impacts, LAMBDA f : f.shap_value > 0)
  IN  SubSeq(positive, 1, IF Len(positive) < 3 THEN Len(positive) ELSE 3)

\* Variant: the loop puts each recommendation in front of the list.
RECURSIVE FactorLoopPrepend(_, _, _, _)
FactorLoopPrepend(factors, churn_probability, i, recommendations) ==
  IF i > Len(factors) THEN recommendations
  ELSE FactorLoopPrepend(factors, churn_probability, i + 1,
         FactorRecommendation(factors[i].feature, churn_probability) \o recommendations)

\* explainer.py:162-188: the loop over top_risk_factors, from position i.
RECURSIVE FactorLoop(_, _, _, _)
FactorLoop(factors, churn_probability, i, recommendations) ==
  IF i > Len(factors) THEN recommendations
  ELSE FactorLoop(factors, churn_probability, i + 1,
         recommendations \o FactorRecommendation(factors[i].feature, churn_probability))

\* explainer.py:191-194
ProbabilityRecommendation(churn_probability) ==
  IF churn_probability > 80 THEN << RecPriority >>
  ELSE IF churn_probability > 60 THEN << RecCall >>
  ELSE << >>

\* Variant: the fallback is decided before the probability-derived entry
\* is appended.
GenerateRecommendationsFallbackFirst(feature_impacts, churn_probability) ==
  LET byFactor == FactorLoop(TopRiskFactors(feature_impacts), churn_probability, 1, << >>)
      some == IF byFactor = << >> THEN << RecMonitor, RecSurvey >> ELSE byFactor
      all == some \o ProbabilityRecommendation(churn_probability)
  IN  SubSeq(all, 1, IF Len(all) < 5 THEN Len(all) ELSE 5)

\* Explainer.generate_recommendations
GenerateRecommendations(feature_impacts, churn_probability) ==
  LET byFactor == FactorLoop(TopRiskFactors(feature_impacts), churn_probability, 1, << >>)
      all == byFactor \o ProbabilityRecommendation(churn_probability)
      some == IF all = << >> THEN << RecMonitor, RecSurvey >> ELSE all
  IN  SubSeq(some, 1, IF Len(some) < 5 THEN Len(some) ELSE 5)

\* A call of generate_recommendations that has not run yet.
RecommendCall(feature_impacts, churn_probability) ==
  [ kind |-> "recommend", feature_impacts |-> feature_impacts,
    churn_probability |-> churn_probability ]

\* The call runs and returns its list.
Recommend ==
  /\ response.kind = "recommend"
  /\ response' = [ kind |-> "recommendations",
                   feature_impacts |-> response.feature_impacts,
                   churn_probability |-> response.churn_probability,
                   recommendations |->
                     GenerateRecommendations(response.feature_impacts,
                                             response.churn_probability) ]
  /\ UNCHANGED << jobVars, model, serveVars >>

(* ------------------------------- serving ------------------------------ *)

\* predict.py:94-98.  predictor is 0 for None and else the training run
\* whose model file the Predictor was built from; scaler and feature_names
\* are the runs whose scaler file and metadata file were read (0: the
\* unfitted StandardScaler of a new DataProcessor, the empty list).
NotLoaded ==
  [ predictor |-> 0, processor |-> FALSE, scaler |-> 0,
    feature_names |-> 0, explainer |-> FALSE ]

\* No call of load_models is in progress.
NoLoad == [pc |-> "idle", model |-> 0, row |-> 0]

\* The parameters of DataProcessor.process_pipeline besides self.
ProcessPipelineParams == { "df", "fit", "target_col" }

\* The arguments predict.py:202-207 and predict.py:440-445 pass to it.
PredictKwargs == { "df", "fit", "target_col", "expected_features" }

\* Python binds a call's arguments to the parameters or raises TypeError.
Binds(kwargs, params) == kwargs \subseteq params

Http(endpoint, code, detail) == [kind |-> endpoint, code |-> code, detail |-> detail]

\* The DataProcessor the endpoints use once load_models has set its scaler:
\* a scaler fitted by a training run, on a corpus holding every category.
CorpusFrame == [i \in 1..MaxCategory |-> i]

LoadedProcessor ==
  [NewProcessor EXCEPT !.fitted = TRUE, !.scaler = EncodeCategorical(CorpusFrame)]

\* What the explainer does for a request: it explains, it returns an empty
\* explanation (explainer.py:66-68, 114-116), or it raises.
Attributions == { "ok", "empty", "raises" }

RecUnable == "Unable to generate recommendations at this time"

\* The explanation of a request the explainer can explain.
SampleImpacts == << [feature |-> [name |-> "MonthlyCharges", keys |-> { "charges" }],
                    shap_value |-> 1] >>

\* predict.py:212-227: the top features and the recommendations of the
\* response; explainer is whether _explainer is set.
Explanation(explainer, attribution) ==
  IF ~explainer \/ attribution = "empty"
  THEN [top_features |-> << >>, recommendations |-> << >>]
  ELSE IF attribution = "raises"
  THEN [top_features |-> << >>, recommendations |-> << RecUnable >>]
  ELSE [ top_features |-> SampleImpacts,
         recommendations |-> GenerateRecommendations(SampleImpacts, HighRisk) ]

\* predict.py:159-293, what POST /predict answers once load_models has
\* returned True: any exception of the body becomes a 500.  The answer is
\* held with what the explainer does for the request.
PredictChurnBody(row, strict, explainer, attribution) ==
  LET X == ScalerTransform(LoadedProcessor, EncodeCategorical(<< row >>), strict)
      r == IF ~Binds(PredictKwargs, ProcessPipelineParams)
           THEN Http("predict", 500, "TypeError")
           ELSE IF X.kind = "raised" THEN Http("predict", 500, X.error)
           ELSE Http("predict", 200, "ok") @@ Explanation(explainer, attribution)
  IN  r @@ [attribution |-> attribution]

\* POST /predict up to the first file read of load_models (predict.py:
\* 105-115): with the state loaded the body runs at once; with no model
\* file the request is refused; else the Predictor reads the model file.
PredictChurn(row, strict) ==
  /\ loader.pc = "idle"
  /\ IF serving.predictor # 0
     THEN /\ \E attribution \in Attributions :
               response' = PredictChurnBody(row, strict, serving.explainer, attribution)
          /\ UNCHANGED loader
     ELSE IF files["saved_models"] = 0
     THEN response' = Http("predict", 503, "Models not available") /\ UNCHANGED loader
     ELSE /\ loader' = [pc |-> "predictor", model |-> files["saved_models"], row |-> row]
          /\ response' = NoResponse
  /\ UNCHANGED << jobVars, model, serving, proc, fitNames, fitFrame >>

\* predict.py:115-121: Predictor.load_scaler raises when the scaler file is
\* missing, load_models returns False and the request is refused; else the
\* Predictor, the DataProcessor and its scaler are set.
LoadPredictor ==
  /\ loader.pc = "predictor"
  /\ IF files["scaler.pkl"] = 0
     THEN /\ response' = Http("predict", 503, "Models not available")
          /\ loader' = NoLoad
          /\ UNCHANGED serving
     ELSE /\ serving' = [serving EXCEPT !.predictor = loader.model,
                                        !.processor = TRUE,
                                        !.scaler = files["scaler.pkl"]]
          /\ loader' = [loader EXCEPT !.pc = "metadata"]
          /\ response' = NoResponse
  /\ UNCHANGED << jobVars, model, proc, fitNames, fitFrame >>

\* predict.py:124-138 and then the body of the request: the feature names
\* are read if the metadata file exists, the explainer is built if there
\* are any, and load_models returns True.
LoadMetadata(strict) ==
  /\ loader.pc = "metadata"
  /\ serving' = IF files["model_metadata.json"] # 0
                THEN [serving EXCEPT !.feature_names = files["model_metadata.json"],
                                     !.explainer = TRUE]
                ELSE serving
  /\ \E attribution \in Attributions :
       response' = PredictChurnBody(loader.row, strict, serving'.explainer, attribution)
  /\ loader' = NoLoad
  /\ UNCHANGED << jobVars, model, proc, fitNames, fitFrame >>

\* The rows of an uploaded CSV: a malformed row holds a value int() or
\* float() rejects.
BulkRows == [malformed : BOOLEAN, cat : {1}]

BulkFiles ==
  { [parse |-> "ok", rows |-> rows] : rows \in SeqsUpTo(BulkRows, MaxBulkRows) }
    \cup { [parse |-> e, rows |-> << >>] : e \in { "EmptyDataError", "ParserError" } }

\* predict.py:409-483: the entry the loop appends for the row at position
\* i (row_number is idx + 1 for the 0-based index label idx).
BulkEntry(i, row, strict) ==
  LET X == ScalerTransform(LoadedProcessor, EncodeCategorical(<< row.cat >>), strict)
      e == IF row.malformed THEN "ValueError"
           ELSE IF ~Binds(PredictKwargs, ProcessPipelineParams) THEN "TypeError"
           ELSE IF X.kind = "raised" THEN X.error
           ELSE NULL
  IN  IF e = NULL
      THEN [row_number |-> i, customer_id |-> "BULK"]
      ELSE [row_number |-> i, customer_id |-> "ERROR_ROW", error |-> e]

\* POST /bulk_predict: no call of load_models.
BulkPredict(file, strict) ==
  /\ loader.pc = "idle"
  /\ response' =
       IF serving.predictor = 0 THEN Http("bulk_predict", 503, "Model not loaded")
       ELSE IF file.parse # "ok" THEN Http("bulk_predict", 400, file.parse)
       ELSE [ kind |-> "bulk_predict", code |-> 200, file |-> file,
              results |-> [i \in 1..Len(file.rows) |-> BulkEntry(i, file.rows[i], strict)] ]
  /\ UNCHANGED << jobVars, model, serveVars >>

(* --------------------------- FeatureEngineer -------------------------- *)

\* predict.py:37: tenure is an integer from 0 to 72.
MaxTenure == 72

\* feature_engineer.py:35-36: the bin edges of pd.cut and the names of the
\* columns that get_dummies(prefix='tenure') makes of the four labels.
TenureBins == << 0, 12, 24, 48, 72 >>

TenureColumns ==
  << "tenure_0-1 year", "tenure_1-2 years", "tenure_2-4 years",
     "tenure_4+ years" >>

\* A TotalCharges cell read from a CSV file is a number (held as is, never
\* negative) or a text that is no number: the single space of the Telco
\* corpus, or longer white space.  NaN is the missing value.
Blank == 0 - 1
Whitespace == 0 - 2
NaN == 0 - 3

\* The columns of a frame that the model follows.  A frame holds the set
\* of its columns and its rows; a row holds a value for every followed
\* column (a default one when the column is absent, which nothing reads)
\* and its derived columns by name; error is the exception a call on the
\* frame ended in, "" for none.
InputColumns ==
  { "customerID", "tenure", "MonthlyCharges", "TotalCharges", "Contract",
    "PaymentMethod", "TechSupport", "InternetService" }

NoDerived == [n \in {} |-> 0]

DefaultRow ==
  [ tenure |-> 30, MonthlyCharges |-> 50, TotalCharges |-> 100,
    Contract |-> "Two year", PaymentMethod |-> "Electronic check",
    TechSupport |-> "No", InternetService |-> "DSL", derived |-> NoDerived ]

NewFrame(columns, rows) == [ columns |-> columns, rows |-> rows, error |-> "" ]

RaiseIn(df, e) == [df EXCEPT !.error = e]

\* A column of a frame read from CSV has dtype object when a cell of it is
\* no number; every cell is then a str.
IsObject(df) == \E i \in DOMAIN df.rows : df.rows[i].TotalCharges \in { Blank, Whitespace }

\* df[names] = values, where values[i] holds the new cells of row i by
\* column name.
AddColumns(df, names, values) ==
  [ columns |-> df.columns \cup names,
    rows |-> [ i \in DOMAIN df.rows |->
                 [ df.rows[i] EXCEPT !.derived = values[i] @@ df.rows[i].derived ] ],
    error |-> df.error ]

\* pd.cut(tenure, bins): the bins are open on the left and closed on the
\* right (right=True, include_lowest=False); 0 stands for the missing
\* value of a tenure that lies in no bin.
Cut(tenure) ==
  LET in(i) == TenureBins[i] < tenure /\ tenure <= TenureBins[i + 1]
  IN  IF \E i \in 1..Len(TenureColumns) : in(i)
      THEN CHOOSE i \in 1..Len(TenureColumns) : in(i)
      ELSE 0

\* get_dummies of the categorical tenure_group: one column per label,
\* whether a row carries the label or not; a missing value sets none.
TenureDummies(row) ==
  [ n \in { TenureColumns[i] : i \in 1..Len(TenureColumns) } |->
      IF Cut(row.tenure) # 0 /\ TenureColumns[Cut(row.tenure)] = n THEN 1 ELSE 0 ]

CreateTenureGroups(df) ==
  IF "tenure" \in df.columns
  THEN AddColumns(df, DOMAIN TenureDummies(DefaultRow),
             [ i \in DOMAIN df.rows |-> TenureDummies(df.rows[i]) ])
  ELSE df

AsFlag(b) == IF b THEN 1 ELSE 0

\* The two ratios are held in hundredths.
ChargeFeatures(row) ==
  [ avg_monthly_charges |-> (row.TotalCharges * 100) \div (row.tenure + 1),
    charge_increase |->
      AsFlag(row.MonthlyCharges * (row.tenure + 1) > row.TotalCharges),
    charge_per_tenure |-> (row.MonthlyCharges * 100) \div (row.tenure + 1) ]

\* The guard names the two charge columns; line 59 reads TotalCharges,
\* then tenure, then divides.
CreateChargeFeatures(df) ==
  IF ~ ({ "MonthlyCharges", "TotalCharges" } \subseteq df.columns) THEN df
  ELSE IF "tenure" \notin df.columns THEN RaiseIn(df, "KeyError: 'tenure'")
  ELSE IF IsObject(df) THEN RaiseIn(df, "TypeError")
  ELSE AddColumns(df, DOMAIN ChargeFeatures(DefaultRow),
             [ i \in DOMAIN df.rows |-> ChargeFeatures(df.rows[i]) ])

\* Of the eight service columns the model follows TechSupport, which is
\* also one of the four security services.
TotalServices(row) == [ total_services |-> AsFlag(row.TechSupport = "Yes") ]

HasInternet(row) == [ has_internet |-> AsFlag(row.InternetService # "No") ]

HasSecurity(row) == [ has_security |-> AsFlag(AsFlag(row.TechSupport = "Yes") > 0) ]

CreateServiceFeatures(df) ==
  IF "TechSupport" \in df.columns
  THEN LET counted == AddColumns(df, {"total_services"},
             [ i \in DOMAIN df.rows |-> TotalServices(df.rows[i]) ])
           internet == IF "InternetService" \in df.columns
                       THEN AddColumns(counted, {"has_internet"},
             [ i \in DOMAIN counted.rows |-> HasInternet(counted.rows[i]) ])
                       ELSE counted
       IN  AddColumns(internet, {"has_security"},
             [ i \in DOMAIN internet.rows |-> HasSecurity(internet.rows[i]) ])
  ELSE df

ContractFeatures(row) ==
  [ is_month_to_month |-> AsFlag(row.Contract = "Month-to-month"),
    has_long_contract |-> AsFlag(row.Contract \in { "One year", "Two year" }) ]

\* The payment methods whose name contains 'automatic'.
AutomaticMethods == { "Bank transfer (automatic)", "Credit card (automatic)" }

PaymentFeatures(row) ==
  [ is_auto_payment |-> AsFlag(row.PaymentMethod \in AutomaticMethods),
    is_electronic_check |-> AsFlag(row.PaymentMethod = "Electronic check") ]

CreateContractFeatures(df) ==
  LET contract == IF "Contract" \in df.columns
                  THEN AddColumns(df, DOMAIN ContractFeatures(DefaultRow),
             [ i \in DOMAIN df.rows |-> ContractFeatures(df.rows[i]) ])
                  ELSE df
  IN  IF "PaymentMethod" \in df.columns
      THEN AddColumns(contract, DOMAIN PaymentFeatures(DefaultRow),
             [ i \in DOMAIN contract.rows |-> PaymentFeatures(contract.rows[i]) ])
      ELSE contract

TenureCharges(row) ==
  [ tenure_charges_interaction |-> row.tenure * row.MonthlyCharges ]

RiskyCustomer(row) ==
  [ risky_customer |->
      AsFlag(row.derived["is_month_to_month"] = 1 /\ row.derived["is_electronic_check"] = 1) ]

CreateInteractionFeatures(df) ==
  LET charges == IF { "tenure", "MonthlyCharges" } \subseteq df.columns
                 THEN AddColumns(df, {"tenure_charges_interaction"},
             [ i \in DOMAIN df.rows |-> TenureCharges(df.rows[i]) ])
                 ELSE df
  IN  IF { "is_month_to_month", "is_electronic_check" } \subseteq charges.columns
      THEN AddColumns(charges, {"risky_customer"},
             [ i \in DOMAIN charges.rows |-> RiskyCustomer(charges.rows[i]) ])
      ELSE charges

\* The five groups in the order of lines 189-193; a group runs unless an
\* earlier one raised.
EngineerFeatures(df) ==
  LET charge == CreateChargeFeatures(df)
      service == IF charge.error # "" THEN charge ELSE CreateServiceFeatures(charge)
      contract == IF service.error # "" THEN service ELSE CreateContractFeatures(service)
      tenure == IF contract.error # "" THEN contract ELSE CreateTenureGroups(contract)
  IN  IF tenure.error # "" THEN tenure ELSE CreateInteractionFeatures(tenure)

(* ------------------------------- Cleaner ------------------------------ *)

\* data_processor.py:37-40, cell by cell.
Replace(cell) == IF cell = Blank THEN NaN ELSE cell

ToNumeric(cell) == IF cell \in { Blank, Whitespace } THEN NaN ELSE cell

FillnaZero(cell, value) == IF cell = NaN THEN 0 ELSE cell

Fillna(cell, value) == IF cell = NaN THEN value ELSE cell

\* DataFrame.ffill on the TotalCharges column: a missing cell takes the
\* last value above it that is not missing, if there is one.
Ffill(rows) ==
  [ i \in DOMAIN rows |->
      IF rows[i].TotalCharges # NaN THEN rows[i]
      ELSE LET above == { j \in 1..i : rows[j].TotalCharges # NaN }
           IN  IF above = {} THEN rows[i]
               ELSE [ rows[i] EXCEPT !.TotalCharges =
                        rows[CHOOSE j \in above : \A k \in above : k <= j].TotalCharges ] ]

\* The frame that clean_data works on is a copy, not the caller's frame.
WorkingFrame(df) == [ shared |-> FALSE, df |-> df ]

\* clean_data(df).  caller is the frame the caller passed, as it is after
\* the call; out is the frame returned.  The in-place fillna on the column
\* of the frame is the one of pandas without copy-on-write, which writes
\* through to the frame.
CleanData(df) ==
  LET work == WorkingFrame(df)
      charges ==
        IF "TotalCharges" \notin df.columns THEN df
        ELSE IF "MonthlyCharges" \notin df.columns
        THEN RaiseIn(df, "KeyError: 'MonthlyCharges'")
        ELSE [ df EXCEPT !.rows =
                 [ i \in DOMAIN df.rows |->
                     [ df.rows[i] EXCEPT !.TotalCharges =
                         Fillna(ToNumeric(Replace(@)), df.rows[i].MonthlyCharges) ] ] ]
      ident == IF charges.error = "" /\ "customerID" \in charges.columns
               THEN [ charges EXCEPT !.columns = @ \cup { "customer_id" } ]
               ELSE charges
      out == IF ident.error = "" THEN [ ident EXCEPT !.rows = Ffill(@) ] ELSE ident
  IN  [ caller |-> IF work.shared THEN out ELSE df, out |-> out ]

(* ------------------------ preprocessing pipeline ---------------------- *)

\* The preprocessing calls of the training script (train_models.py:49-66),
\* of the background job (train.py:70-82, where process_pipeline cleans
\* and then encodes and scales) and of batch inference (predict.py:315-319).
Callers == { "train_models.py", "train_models_task", "predict_batch" }

CallerSteps(caller) ==
  CASE caller = "train_models.py" ->
         << "clean_data", "engineer_features", "encode_and_scale" >>
    [] caller = "train_models_task" ->
         << "engineer_features", "clean_data", "encode_and_scale" >>
    [] caller = "predict_batch" ->
         << "engineer_features", "clean_data", "encode_and_scale" >>

\* A caller about to preprocess the frame df.  cleaned and engineered
\* hold the last call of clean_data and of engineer_features: the frame
\* given, and what came of it.
PipelineCall(caller, df) ==
  [ kind |-> "pipeline", caller |-> caller, df |-> df, trace |-> << >>,
    cleaned |-> [ given |-> df, caller |-> df, out |-> df ],
    engineered |-> [ given |-> df, out |-> df ] ]

\* The step the caller comes to next; "" after the last one and after an
\* exception, which ends the caller's work.
NextStep ==
  IF response.kind # "pipeline" \/ response.df.error # "" THEN ""
  ELSE IF Len(response.trace) = Len(CallerSteps(response.caller)) THEN ""
  ELSE CallerSteps(response.caller)[Len(response.trace) + 1]

CleanDataStep ==
  /\ NextStep = "clean_data"
  /\ LET r == CleanData(response.df)
     IN  response' = [ response EXCEPT
                         !.df = r.out,
                         !.trace = Append(@, "clean_data"),
                         !.cleaned = [ given |-> response.df,
                                       caller |-> r.caller, out |-> r.out ] ]
  /\ UNCHANGED << jobVars, model, serveVars >>

EngineerFeaturesStep ==
  /\ NextStep = "engineer_features"
  /\ LET out == EngineerFeatures(response.df)
     IN  response' = [ response EXCEPT
                         !.df = out,
                         !.trace = Append(@, "engineer_features"),
                         !.engineered = [ given |-> response.df, out |-> out ] ]
  /\ UNCHANGED << jobVars, model, serveVars >>

\* encode_categorical, prepare_features and scale_features, which Fit and
\* Transform model on their own; here the step only takes its place.
EncodeAndScaleStep ==
  /\ NextStep = "encode_and_scale"
  /\ response' = [ response EXCEPT !.trace = Append(@, "encode_and_scale") ]
  /\ UNCHANGED << jobVars, model, serveVars >>

(* --------------------------- specifications --------------------------- *)

NoFiles == [f \in {ArtifactFiles[i] : i \in 1..Len(ArtifactFiles)} |-> 0]

AllScores == [1..Len(Variants) -> 1..AucLevels]

\* The three variants score alike.
TiedScores == [i \in 1..Len(Variants) |-> 1]

\* Every variable but response, right after start-up.
InitState(S) ==
  /\ db = << >>
  /\ mem = << >>
  /\ task = << >>
  /\ files = NoFiles
  /\ metricRows = {}
  /\ corpus \in CorpusStates
  /\ scores \in S
  /\ model = NULL
  /\ serving = NotLoaded
  /\ loader = NoLoad
  /\ proc = NewProcessor
  /\ fitNames = << >>
  /\ fitFrame = << >>

InitWith(S) ==
  /\ InitState(S)
  /\ response = NoResponse

\* Concurrent training jobs with status queries and listings.  The job
\* state machine does not read the scores: they are varied in SpecEval.
Init == InitWith({TiedScores})

Next ==
  \/ Submit
  \/ \E j \in Jobs : TaskStart(j)
  \/ \E j \in Jobs : TaskBegin(j)
  \/ \E j \in Jobs : StageReturn(j)
  \/ \E j \in Jobs : StageCommit(j)
  \/ \E j \in Jobs : SaveFile(j)
  \/ \E j \in Jobs : SaveMetrics(j)
  \/ \E j \in Jobs : Finish(j)
  \/ \E j \in Jobs : StageRaise(j)
  \/ \E j \in 1..MaxJobs : GetTrainingStatus(j)
  \/ \E limit \in {1, DefaultLimit} : GetTrainingJobs(limit)

Spec == Init /\ [][Next]_vars

\* A step of the worker thread that runs train_models_task for job j.
WorkerStep(j) ==
  /\ j \in Jobs
  /\ \/ TaskStart(j)
     \/ TaskBegin(j)
     \/ StageReturn(j)
     \/ StageCommit(j)
     \/ SaveFile(j)
     \/ SaveMetrics(j)
     \/ Finish(j)
     \/ StageRaise(j)

\* Every queued task gets a thread of the pool and the thread keeps
\* running: a stage call that was made returns or raises.
SpecLive == Spec /\ \A j \in 1..MaxJobs : WF_vars(WorkerStep(j))

\* One training job, over every outcome of the evaluation.
InitEval == InitWith(AllScores)

NextEval ==
  \/ Jobs = {} /\ Submit
  \/ \E j \in Jobs : TaskStart(j)
  \/ \E j \in Jobs : TaskBegin(j)
  \/ \E j \in Jobs : StageReturn(j)
  \/ \E j \in Jobs : StageCommit(j)
  \/ \E j \in Jobs : SaveFile(j)
  \/ \E j \in Jobs : SaveMetrics(j)
  \/ \E j \in Jobs : Finish(j)
  \/ \E j \in Jobs : StageRaise(j)
  \/ \E j \in Jobs : GetTrainingStatus(j)

SpecEval == InitEval /\ [][NextEval]_vars

\* The Predictor alone: a model is attached and feature matrices are scored.
InitPredict == InitWith({TiedScores}) /\ corpus = "ok"

NextPredict ==
  \/ LoadModel
  \/ \E x \in Rows : PredictSingle(<< x >>)
  \/ PredictSingle(<< >>)
  \/ \E X \in SeqsUpTo(BatchRows, MaxRows) : PredictBatch(X)

SpecPredict == InitPredict /\ [][NextPredict]_vars

\* A DataProcessor alone: fitted once on a corpus, then used in transform
\* mode on frames of any categories.
InitTransform == InitWith({TiedScores}) /\ corpus = "ok"

NextTransform ==
  \/ \E df \in Frames : Fit(df)
  \/ \E df \in Frames, strict \in BOOLEAN : Transform(df, strict)

SpecTransform == InitTransform /\ [][NextTransform]_vars

\* The Explainer's recommendations for every list of feature impacts.
InitExplain ==
  /\ InitState({TiedScores})
  /\ corpus = "ok"
  /\ \E feature_impacts \in SeqsUpTo(Impacts, MaxImpacts), p \in ExplainProbabilities :
       response = RecommendCall(feature_impacts, p)

NextExplain == Recommend

SpecExplain == InitExplain /\ [][NextExplain]_vars

\* The serving endpoints beside training runs that follow one another.
InitServe == InitWith({TiedScores})

NextServe ==
  \/ (\A j \in Jobs : task[j].pc = "done") /\ Submit
  \/ \E j \in Jobs : TaskStart(j)
  \/ \E j \in Jobs : TaskBegin(j)
  \/ \E j \in Jobs : StageReturn(j)
  \/ \E j \in Jobs : StageCommit(j)
  \/ \E j \in Jobs : SaveFile(j)
  \/ \E j \in Jobs : SaveMetrics(j)
  \/ \E j \in Jobs : Finish(j)
  \/ \E j \in Jobs : StageRaise(j)
  \/ \E row \in Categories, strict \in BOOLEAN : PredictChurn(row, strict)
  \/ LoadPredictor
  \/ \E strict \in BOOLEAN : LoadMetadata(strict)
  \/ \E file \in BulkFiles, strict \in BOOLEAN : BulkPredict(file, strict)

SpecServe == InitServe /\ [][NextServe]_vars

\* One record of every tenure with every column.
TenureFrames ==
  { NewFrame(InputColumns,
             << [ DefaultRow EXCEPT !.tenure = t, !.Contract = c, !.PaymentMethod = p ] >>) :
      t \in 0..MaxTenure, c \in { "Month-to-month", "Two year" },
      p \in { "Electronic check", "Bank transfer (automatic)" } }

\* One record with any of the columns.
ColumnFrames ==
  { NewFrame(columns, << [ DefaultRow EXCEPT !.TechSupport = s ] >>) :
      columns \in SUBSET InputColumns, s \in { "Yes", "No" } }

\* Frames as read from a CSV file, with TotalCharges cells that are no
\* number.
CsvRows ==
  { [ DefaultRow EXCEPT !.tenure = t, !.TotalCharges = c ] :
      t \in { 0, 30 }, c \in { Blank, Whitespace, 100 } }

CsvFrames == { NewFrame(InputColumns, rows) : rows \in SeqsUpTo(CsvRows, MaxRecords) \ { << >> } }

\* The preprocessing of a frame by each of its callers.
InitPipeline ==
  /\ InitState({TiedScores})
  /\ corpus = "ok"
  /\ \E caller \in Callers, df \in TenureFrames \cup ColumnFrames \cup CsvFrames :
       response = PipelineCall(caller, df)

NextPipeline ==
  \/ CleanDataStep
  \/ EngineerFeaturesStep
  \/ EncodeAndScaleStep

SpecPipeline == InitPipeline /\ [][NextPipeline]_vars

(* ----------------------------- properties ----------------------------- *)

Terminal == { "completed", "failed" }

\* C1: a job's status only moves pending -> running -> completed or
\* pending -> running -> failed.  A job is created pending; it becomes
\* running only in a step of the worker executing it; once completed or
\* failed, no step of any operation changes its status.
C1_StatusTransitions ==
  [][\A j \in DOMAIN db' :
       IF j \notin DOMAIN db
       THEN db'[j].status = "pending"
       ELSE \/ db'[j].status = db[j].status
            \/ /\ db[j].status = "pending"
               /\ db'[j].status = "running"
               /\ task[j].pc # "done"
               /\ task'[j] # task[j]
            \/ /\ db[j].status = "running"
               /\ db'[j].status \in Terminal]_vars

\* One job completed, another failed, and a listing was served afterwards.
C1_Witness ==
  /\ \E j \in Jobs : db[j].status = "completed"
  /\ \E j \in Jobs : db[j].status = "failed"
  /\ response.kind = "jobs"

\* C2: in every persisted state of a job the progress lies within [0,1]
\* (0..10 tenths), from the submission on, and no step lowers the
\* persisted progress of a job, whether the job succeeds or fails.
C2_ProgressMonotone ==
  [][\A j \in DOMAIN db' :
       /\ db'[j].progress \in 0..FullProgress
       /\ j \in DOMAIN db => db'[j].progress >= db[j].progress]_vars

\* A job that failed after it had made progress, beside a completed one.
C2_Witness ==
  /\ \E j \in Jobs : db[j].status = "failed" /\ db[j].progress > StageProgress[1]
  /\ \E j \in Jobs : db[j].status = "completed" /\ db[j].progress = FullProgress

\* C3: whenever a job's status is completed, its progress is 1.0 and its
\* result summary holds one metrics entry per trained variant, the feature
\* count, and a best_model that is one of the three trained variants.
C3_CompletedResult ==
  \A j \in Jobs :
    db[j].status = "completed" =>
      /\ db[j].progress = 10
      /\ Cardinality(db[j].results) = 1
      /\ \A r \in db[j].results :
           /\ r.best_model \in { "Logistic Regression", "Random Forest", "XGBoost" }
           /\ r.feature_count = Len(FeatureNames)
           /\ { r.metrics[i].model_name : i \in 1..Len(r.metrics) }
                = { "Logistic Regression", "Random Forest", "XGBoost" }

\* A completed job whose best model is not the first variant.
C3_Witness ==
  \E j \in Jobs :
    /\ db[j].status = "completed"
    /\ \E r \in db[j].results : r.best_model = "XGBoost"

\* C4: if a stage of a running job raises, whichever stage it is, the job
\* is failed with the error message and a completion timestamp recorded,
\* in the same step and with nothing else of the row changed, and the
\* exception does not leave the background task.
C4_FailureRecorded ==
  \A j \in Jobs :
    /\ task[j].pc # "escaped"
    /\ task[j].e # NULL =>
         /\ task[j].pc = "done"
         /\ db[j].status = "failed"
         /\ db[j].error_message = task[j].e
         /\ db[j].completed_at # NULL
         /\ db[j].results = {}
         /\ \E k \in 1..Len(Stages) :
              /\ task[j].calls = [i \in 1..k |-> i]
              /\ db[j].current_model = Stages[k]
              /\ db[j].progress = StageProgress[k]

\* A job failed in its last stage while another failed in its first.
C4_Witness ==
  /\ \E j \in Jobs : task[j].e # NULL /\ db[j].current_model = "Saving metrics"
  /\ \E j \in Jobs : task[j].e # NULL /\ db[j].current_model = "Engineering features"

\* The stage label that follows a persisted label, in the order load,
\* engineer, process, split, train, evaluate, save-models, save-metrics.
C5_NextLabel(label) ==
  CASE label = NULL -> "Loading data"
    [] label = "Loading data" -> "Engineering features"
    [] label = "Engineering features" -> "Processing data"
    [] label = "Processing data" -> "Splitting data"
    [] label = "Splitting data" -> "Training models"
    [] label = "Training models" -> "Evaluating models"
    [] label = "Evaluating models" -> "Saving models"
    [] label = "Saving models" -> "Saving metrics"
    [] OTHER -> "none"

\* C5: the persisted stage label of a job only ever changes to the next
\* stage of the fixed order; the stage calls a job makes are the stages
\* 1, 2, 3, ... in order, none skipped and none made twice; and a stage is
\* called only while its own label is the persisted one.
C5_StageOrder ==
  [][\A j \in DOMAIN db :
       /\ db'[j].current_model # db[j].current_model =>
            db'[j].current_model = C5_NextLabel(db[j].current_model)
       /\ task'[j].calls # task[j].calls =>
            /\ task'[j].calls = Append(task[j].calls, Len(task[j].calls) + 1)
            /\ Len(task'[j].calls) <= Len(Stages)
            /\ db[j].current_model = Stages[Len(task'[j].calls)]]_vars

\* A completed job: all eight stages were called.
C5_Witness ==
  \E j \in Jobs :
    /\ db[j].status = "completed"
    /\ Len(task[j].calls) = 8
    /\ db[j].current_model = "Saving metrics"

\* The (progress, label) pairs one commit of a job writes.
C6_CommittedPairs ==
  { << 0, NULL >>, << 1, "Loading data" >>, << 2, "Engineering features" >>,
    << 3, "Processing data" >>, << 4, "Splitting data" >>,
    << 5, "Training models" >>, << 7, "Evaluating models" >>,
    << 8, "Saving models" >>, << 9, "Saving metrics" >>,
    << 10, "Saving metrics" >> }

\* C6: the snapshot a status query returns was written by one commit of
\* the job: its progress and stage label belong to the same stage, a
\* running status comes with a start timestamp, and a completed status
\* comes with progress 1.0 and a result.
C6_ConsistentSnapshot ==
  (response.kind = "status" /\ response.code = 200) =>
    LET b == response.body IN
      /\ << b.progress, b.current_model >> \in C6_CommittedPairs
      /\ b.status = "pending" => b.progress = 0 /\ b.started_at = NULL
      /\ b.status = "running" => b.started_at # NULL /\ b.progress \in 1..9
      /\ b.status = "completed" => b.progress = 10 /\ b.results # {}
      /\ b.progress = 10 => b.status = "completed"

\* A status query answered while the task holds uncommitted changes of the
\* queried job.
C6_Witness ==
  /\ response.kind = "status"
  /\ response.code = 200
  /\ response.body.status = "running"
  /\ task[response.job_id].pc = "called"
  /\ mem[response.job_id] # db[response.job_id]

C8_OnlyOwnWorker ==
  [][/\ \A j \in DOMAIN db :
          db'[j] # db[j] =>
            /\ task'[j] # task[j]
            /\ \A k \in DOMAIN db \ {j} : db'[k] = db[k] /\ task'[k] = task[k]
     /\ response'.kind \in { "status", "jobs" } => db' = db]_vars

\* Two jobs running at different stages, one of them holding uncommitted
\* changes, when a listing is served.
C8_Witness ==
  /\ response.kind = "jobs"
  /\ response.count = 2
  /\ \E j, k \in Jobs :
       /\ db[j].status = "running"
       /\ db[k].status = "running"
       /\ db[j].progress < db[k].progress
       /\ mem[j] # db[j]

\* The tier the breakpoints 0.40 and 0.70 assign to a probability p
\* (hundredths), each breakpoint belonging to the upper tier.
C9_Tier(p) ==
  CASE p >= 70 -> "HIGH"
    [] p >= 40 /\ p < 70 -> "MEDIUM"
    [] p < 40 -> "LOW"

C9_Rank(tier) ==
  CASE tier = "LOW" -> 1
    [] tier = "MEDIUM" -> 2
    [] tier = "HIGH" -> 3

\* C9: for every probability p in [0,1] the tier is HIGH iff p >= 0.70,
\* MEDIUM iff 0.40 <= p < 0.70 and LOW iff p < 0.40; the tier never falls
\* as p rises; and predict_single and predict_batch report exactly this
\* tier for the probability they return.
C9_RiskTier ==
  /\ \A p \in 0..ProbMax :
       /\ GetRiskLevel(p) = "HIGH" <=> p >= 70
       /\ GetRiskLevel(p) = "MEDIUM" <=> (p >= 40 /\ p < 70)
       /\ GetRiskLevel(p) = "LOW" <=> p < 40
  /\ \A p1, p2 \in 0..ProbMax :
       p1 < p2 => C9_Rank(GetRiskLevel(p1)) <= C9_Rank(GetRiskLevel(p2))
  /\ response.kind = "predict_single" =>
       response.result.risk_level = C9_Tier(response.result.churn_probability)
  /\ response.kind = "predict_batch" =>
       \A i \in 1..Len(response.results) :
         response.results[i].risk_level
           = C9_Tier(response.results[i].churn_probability)

\* A batch answered with a row on each side of the upper breakpoint.
C9_Witness ==
  /\ response.kind = "predict_batch"
  /\ \E i, j \in 1..Len(response.results) :
       /\ response.results[i].churn_probability = 70
       /\ response.results[i].risk_level = "HIGH"
       /\ response.results[j].churn_probability = 69
       /\ response.results[j].risk_level = "MEDIUM"

\* C10: predict_batch returns exactly one result per input row, in the
\* order of the rows: result i carries the decision, the probability and
\* the risk tier of input row i.
C10_BatchOrder ==
  response.kind = "predict_batch" =>
    /\ Len(response.results) = Len(response.X)
    /\ \A i \in 1..Len(response.X) :
         /\ response.results[i].churn_prediction = (response.X[i].pred = 1)
         /\ response.results[i].churn_probability = response.X[i].proba
         /\ response.results[i].no_churn_probability = ProbMax - response.X[i].proba
         /\ response.results[i].risk_level = C9_Tier(response.X[i].proba)

\* A batch of three rows, no two neighbours alike, was answered.
C10_Witness ==
  /\ response.kind = "predict_batch"
  /\ Len(response.X) = 3
  /\ Len(response.results) = 3
  /\ response.X[1] # response.X[2]
  /\ response.X[2] # response.X[3]

\* C11 as stated: predict_single and predict_batch on a Predictor with no
\* model attached fail with a ModelNotLoadedError.
C11_ModelNotLoadedError ==
  (model = NULL /\ response.kind = "raised") =>
    response.error = "ModelNotLoadedError"

\* C11, amended: on a Predictor with no model attached, predict_single and
\* predict_batch raise ValueError("Model not loaded") and return no result.
C11_NoModelRaises ==
  model = NULL =>
    /\ response.kind \notin { "predict_single", "predict_batch" }
    /\ response.kind = "raised" => response.error = "ValueError: Model not loaded"

\* A prediction was asked of a Predictor with no model attached.
C11_Witness ==
  /\ model = NULL
  /\ response.kind = "raised"

\* C12: an inference request is refused as model-unavailable (503) when no
\* model was ever trained, and only then: never after a failure to load
\* an existing model, never while a trained model exists.
C12_UnavailableIffNoModel ==
  response.kind \in { "predict", "bulk_predict" } =>
    (response.code = 503 <=> files["saved_models"] = 0)

\* C13: POST /predict answers a well-formed request with 200 or with 503,
\* and never with an internal error once the artifacts are loaded.
C13_PredictNeverInternalError ==
  response.kind = "predict" =>
    /\ response.code \in { 200, 503 }
    /\ serving.predictor # 0 => response.code = 200

\* C14: the serving state is set at most once and never partially: once
\* load_models has reported success every component is set from the
\* artifacts, and no later step sets any of them again.
C14_LoadedOnceAndWhole ==
  [][/\ (loader'.pc = "idle" /\ serving'.predictor # 0) =>
          /\ serving'.processor
          /\ serving'.scaler # 0
          /\ serving'.feature_names # 0
          /\ serving'.explainer
     /\ (loader.pc = "idle" /\ serving.predictor # 0) => serving' = serving]_vars

\* C15: the model, the scaler and the feature names of the serving state
\* come from the same training run.
C15_SameRun ==
  (loader.pc = "idle" /\ serving.predictor # 0) =>
    /\ serving.scaler = serving.predictor
    /\ serving.feature_names \in { 0, serving.predictor }

\* C16: a bulk prediction holds one entry per row, in order; the entry of
\* a malformed row is an error entry with the row's position, and the
\* entry of every other row is a prediction.
C16_MalformedRowsIsolated ==
  (response.kind = "bulk_predict" /\ response.code = 200) =>
    /\ Len(response.results) = Len(response.file.rows)
    /\ \A i \in 1..Len(response.results) :
         /\ response.results[i].row_number = i
         /\ ("error" \in DOMAIN response.results[i]) <=> response.file.rows[i].malformed

\* C17: transforming any record with a fitted DataProcessor yields a
\* feature vector whose names, in number and order, are those recorded at
\* fit time.
C17_TransformMatchesFit ==
  (response.kind = "process_pipeline" /\ ~response.fit) =>
    /\ response.out.kind = "transform"
    /\ response.out.feature_names = fitNames

\* C18: a record holding a category that fit did not see does not make the
\* transform fail: a feature vector is produced, without a column for that
\* category.
C18_UnseenCategoryOmitted ==
  LET seen == { fitFrame[i] : i \in 1..Len(fitFrame) }
      df == response.df IN
    (/\ response.kind = "process_pipeline"
     /\ ~response.fit
     /\ \E i \in 1..Len(df) : df[i] \notin seen) =>
      /\ response.out.kind = "transform"
      /\ \A k \in 1..Len(response.out.feature_names) :
           response.out.feature_names[k].cat \in seen \cup {0}

\* C19: once fitted, a DataProcessor keeps its categorical mappings, its
\* scaler and its recorded feature names through every later call.
C19_TransformerFrozen ==
  [][proc.fitted =>
       /\ proc'.label_encoders = proc.label_encoders
       /\ proc'.fitted
       /\ proc'.scaler = proc.scaler
       /\ proc'.feature_names = proc.feature_names]_vars

C20_FactorRecommendations ==
  { RecContract, RecPayment, RecSupport, RecSecurity, RecTenure, RecDiscount, RecValue }

\* The keyword a risk factor's name holds when it yields the recommendation.
C20_Keyword(rec) ==
  IF rec = RecContract THEN "contract"
  ELSE IF rec = RecPayment THEN "payment"
  ELSE IF rec = RecSupport THEN "tech_support"
  ELSE IF rec = RecSecurity THEN "security"
  ELSE IF rec = RecTenure THEN "tenure"
  ELSE "charges"

\* C20: generate_recommendations returns at most 5 entries; a
\* recommendation derived from the probability comes last, after every
\* recommendation derived from a risk factor; and the risk-factor
\* recommendations follow the rank order of the features that produced
\* them: they can be matched, in order, to features of positive SHAP
\* value at increasing ranks.
C20_RecommendationOrder ==
  response.kind = "recommendations" =>
    LET out == response.recommendations
        imp == response.feature_impacts
        m == Cardinality({ i \in 1..Len(out) : out[i] \in C20_FactorRecommendations })
    IN  /\ Len(out) <= 5
        /\ \A i \in 1..Len(out) :
             /\ out[i] \in { RecPriority, RecCall } => i = Len(out)
             /\ out[i] \in C20_FactorRecommendations => i <= m
        /\ \E rank \in [1..m -> 1..Len(imp)] :
             /\ \A i, k \in 1..m : i < k => rank[i] < rank[k]
             /\ \A i \in 1..m :
                  /\ imp[rank[i]].shap_value > 0
                  /\ Contains(imp[rank[i]].feature, C20_Keyword(out[i]))

\* Three risk factors of different kinds ranked below a feature that
\* lowers the risk, with a probability that adds its own recommendation.
C20_Witness ==
  /\ response.kind = "recommendations"
  /\ Len(response.recommendations) = 4
  /\ response.recommendations[1] # response.recommendations[2]
  /\ response.recommendations[4] = RecPriority
  /\ response.feature_impacts[1].shap_value < 0

\* The keywords of the rule table.
C21_RuleKeywords ==
  { "month_to_month", "contract", "electronic_check", "payment", "tech_support",
    "online_security", "security", "tenure", "charges" }

\* Position i of imp is one of its first three entries of positive SHAP value.
C21_Considered(imp, i) ==
  /\ imp[i].shap_value > 0
  /\ Cardinality({ k \in 1..(i - 1) : imp[k].shap_value > 0 }) < 3

\* None of the top 3 positive features of imp matches a rule of the table.
C21_NoRuleMatches(imp) ==
  \A i \in 1..Len(imp) :
    C21_Considered(imp, i) => imp[i].feature.keys \cap C21_RuleKeywords = {}

\* C21 as stated: if none of the top 3 positive features matches a rule,
\* the result holds the two generic monitoring recommendations whatever
\* the probability.
C21_FallbackWhateverProbability ==
  (response.kind = "recommendations" /\ C21_NoRuleMatches(response.feature_impacts)) =>
    /\ \E i \in 1..Len(response.recommendations) : response.recommendations[i] = RecMonitor
    /\ \E i \in 1..Len(response.recommendations) : response.recommendations[i] = RecSurvey

\* C21, amended: if none of the top 3 positive features matches a rule,
\* the result is the two generic monitoring recommendations when the
\* probability is at most 0.6, and the probability-derived recommendation
\* alone when it is above.
C21_FallbackWhenNothingElse ==
  (response.kind = "recommendations" /\ C21_NoRuleMatches(response.feature_impacts)) =>
    response.recommendations =
      IF response.churn_probability <= 60 THEN << RecMonitor, RecSurvey >>
      ELSE IF response.churn_probability <= 80 THEN << RecCall >>
      ELSE << RecPriority >>

\* A risk factor that matches no rule, at a probability that adds nothing.
C21_Witness ==
  /\ response.kind = "recommendations"
  /\ response.churn_probability <= 60
  /\ Len(response.feature_impacts) > 0
  /\ response.feature_impacts[1].shap_value > 0
  /\ C21_NoRuleMatches(response.feature_impacts)
  /\ response.recommendations = << RecMonitor, RecSurvey >>

\* C22: when the explainer raises or returns an empty explanation for a
\* single-prediction request, the request still succeeds, its top-feature
\* list is empty and its recommendations hold a generic fallback message.
C22_AttributionFailureRecoverable ==
  (/\ response.kind = "predict"
   /\ "attribution" \in DOMAIN response
   /\ response.attribution \in { "empty", "raises" }) =>
    /\ response.code = 200
    /\ response.top_features = << >>
    /\ response.recommendations = << RecUnable >>

\* A call of engineer_features has returned a frame.
Engineered ==
  /\ response.kind = "pipeline"
  /\ \E i \in DOMAIN response.trace : response.trace[i] = "engineer_features"
  /\ response.engineered.out.error = ""

\* C23: for every tenure from 0 to 72 the tenure-bucket expansion sets
\* exactly one of the four bin flags, and all four bucket columns are in
\* the output whatever tenures the input holds.
C23_OneTenureBucket ==
  (Engineered /\ "tenure" \in response.engineered.given.columns) =>
    LET out == response.engineered.out
        buckets == { TenureColumns[i] : i \in 1..Len(TenureColumns) }
    IN  /\ buckets \subseteq out.columns
        /\ \A i \in DOMAIN out.rows :
              /\ buckets \subseteq DOMAIN out.rows[i].derived
              /\ out.rows[i].tenure \in 0..MaxTenure =>
                    Cardinality({ n \in buckets : out.rows[i].derived[n] = 1 }) = 1

\* C24: each feature group of engineer_features is skipped without error
\* when a column it reads is absent, and no column of the input is
\* missing from the output.
C24_GroupsSkippedWhenAbsent ==
  (/\ response.kind = "pipeline"
   /\ \E i \in DOMAIN response.trace : response.trace[i] = "engineer_features"
   /\ ~ IsObject(response.engineered.given)) =>
    /\ response.engineered.out.error = ""
    /\ response.engineered.given.columns \subseteq response.engineered.out.columns

\* A call of clean_data has returned a frame.
Cleaned ==
  /\ response.kind = "pipeline"
  /\ \E i \in DOMAIN response.trace : response.trace[i] = "clean_data"
  /\ response.cleaned.out.error = ""

\* C25: clean_data keeps the number of records and leaves no record with
\* a missing TotalCharges: a blank or white-space TotalCharges becomes the
\* MonthlyCharges of its record, and the frame passed in is not modified.
C25_CleanDataFillsTotalCharges ==
  (Cleaned /\ "TotalCharges" \in response.cleaned.given.columns) =>
    LET given == response.cleaned.given
        out == response.cleaned.out
    IN  /\ Len(out.rows) = Len(given.rows)
        /\ \A i \in DOMAIN out.rows :
              /\ out.rows[i].TotalCharges \notin { Blank, Whitespace, NaN }
              /\ given.rows[i].TotalCharges \in { Blank, Whitespace } =>
                    out.rows[i].TotalCharges = given.rows[i].MonthlyCharges
              /\ given.rows[i].TotalCharges \notin { Blank, Whitespace } =>
                    out.rows[i].TotalCharges = given.rows[i].TotalCharges
        /\ response.cleaned.caller = given

\* A frame of two records, one with a blank and one with a white-space
\* TotalCharges, has been cleaned.
C25_Witness ==
  /\ Cleaned
  /\ Len(response.cleaned.given.rows) = 2
  /\ response.cleaned.given.rows[1].TotalCharges = Blank
  /\ response.cleaned.given.rows[2].TotalCharges = Whitespace
  /\ response.cleaned.out.rows[1].TotalCharges = response.cleaned.given.rows[1].MonthlyCharges
  /\ response.cleaned.out.rows[2].TotalCharges = response.cleaned.given.rows[2].MonthlyCharges

\* C26: every caller applies the preprocessing steps in the order
\* clean_data, engineer_features, encoding and scaling, so that
\* engineer_features never runs on a frame that has not been cleaned.
C26_CleanedBeforeEngineered ==
  response.kind = "pipeline" =>
    \A i \in DOMAIN response.trace :
      response.trace[i] = << "clean_data", "engineer_features", "encode_and_scale" >>[i]

\* C27: every job the background worker has picked up eventually reaches
\* completed or failed in the database, each stage call returning or
\* raising: no path of the worker leaves the job running for ever.
C27_PickedUpJobTerminates ==
  \A j \in 1..MaxJobs :
    (j \in Jobs /\ task[j].pc # "queued") ~> (j \in Jobs /\ db[j].status \in Terminal)

\* Two jobs were picked up; one ended completed and the other, through
\* the failure handler, failed.
C27_Witness ==
  /\ Cardinality(Jobs) = 2
  /\ \A j \in Jobs : task[j].pc = "done"
  /\ { db[j].status : j \in Jobs } = Terminal

\* C28: when concurrent training jobs have all ended completed, the model
\* files, the scaler file and the metadata file were written by the same
\* job.
C28_ArtifactsOfOneJob ==
  (/\ Cardinality(Jobs) > 1
   /\ \A j \in Jobs : task[j].pc = "done" /\ db[j].status = "completed") =>
    \A f, g \in DOMAIN files : files[f] = files[g]

\* What the status of a persisted job says of its other columns.
C29_Consistent(row) ==
  /\ row.status = "pending" =>
        row.started_at = NULL /\ row.results = {} /\ row.error_message = NULL
  /\ row.status = "completed" =>
        /\ row.results # {} /\ row.error_message = NULL
        /\ row.started_at # NULL /\ row.completed_at # NULL
  /\ row.status = "failed" =>
        /\ row.error_message # NULL /\ row.completed_at # NULL
        /\ row.results = {} /\ row.progress < FullProgress

\* C29: in every persisted state of a job the record agrees with its
\* status: pending has no start timestamp, result or error; completed has
\* a result, no error and both timestamps; failed has an error message, a
\* completion timestamp, no result and a progress below 1.0 that is the
\* last progress persisted before the failure.
C29_RecordMatchesStatus ==
  [][\A j \in DOMAIN db' :
       /\ C29_Consistent(db'[j])
       /\ (j \in Jobs /\ db[j].status # "failed" /\ db'[j].status = "failed") =>
            db'[j].progress = db[j].progress]_vars

\* One job is persisted completed and another failed after it had
\* persisted the progress of the save-models stage.
C29_Witness ==
  /\ \E j \in Jobs : db[j].status = "completed" /\ db[j].progress = FullProgress
  /\ \E j \in Jobs : db[j].status = "failed" /\ db[j].progress = StageProgress[SaveModelsStage]

\* The rules in the order the claim gives them, each with the keywords
\* that make it match.
C30_Rules ==
  << { "month_to_month", "contract" }, { "electronic_check", "payment" },
     { "tech_support" }, { "online_security", "security" }, { "tenure" },
     { "charges" } >>

\* The first rule that matches the feature, 0 when none does.
C30_FirstRule(feature) ==
  LET matching == { r \in 1..Len(C30_Rules) : feature.keys \cap C30_Rules[r] # {} }
  IN  IF matching = {} THEN 0 ELSE CHOOSE r \in matching : \A q \in matching : r <= q

\* What rule r recommends at probability p.
C30_RuleRecommendation(r, p) ==
  << RecContract, RecPayment, RecSupport, RecSecurity, RecTenure,
     IF p > 70 THEN RecDiscount ELSE RecValue >>[r]

\* C30: for every ranked feature list and every probability the result
\* of generate_recommendations is a non-empty list of at most 4 entries:
\* one recommendation for each of the at most 3 considered risk factors
\* that matches a rule, chosen by the first matching rule in the order
\* contract, payment, tech-support, security, tenure, charges, and then at
\* most one entry derived from the probability; so that the cap of 5
\* never cuts the list.
C30_AtMostFourRecommendations ==
  response.kind = "recommendations" =>
    LET out == response.recommendations
        imp == response.feature_impacts
        p == response.churn_probability
        considered == { i \in 1..Len(imp) :
                          /\ imp[i].shap_value > 0
                          /\ Cardinality({ k \in 1..(i - 1) : imp[k].shap_value > 0 }) < 3 }
        matched == { i \in considered : C30_FirstRule(imp[i].feature) # 0 }
        n == Cardinality(matched)
        extra == IF p > 60 THEN 1 ELSE 0
    IN  /\ Len(out) \in 1..4
        /\ n <= 3
        /\ (n + extra > 0) => Len(out) = n + extra
        /\ (n + extra = 0) => Len(out) = 2
        /\ \A i \in matched :
             out[Cardinality({ k \in matched : k <= i })] =
               C30_RuleRecommendation(C30_FirstRule(imp[i].feature), p)

\* Four risk factors, the first of which matches both the tenure and the
\* charges rule, at a probability that adds an entry: the fourth factor is
\* not considered and the list has four entries.
C30_Witness ==
  /\ response.kind = "recommendations"
  /\ Len(response.feature_impacts) = 4
  /\ \A i \in 1..4 : /\ response.feature_impacts[i].shap_value > 0
                      /\ response.feature_impacts[i].feature.keys # {}
  /\ response.feature_impacts[1].feature.keys = { "tenure", "charges" }
  /\ response.recommendations[1] = RecTenure
  /\ response.churn_probability > 60
  /\ Len(response.recommendations) = 4

====
